---- MODULE Spec2Model ----
(***************************************************************************)
(* Model of elevator_sim.cpp: the per-elevator movement state machine      *)
(* (Elevator::addTarget, Elevator::step), the greedy dispatcher            *)
(* (ElevatorSystem::assignRequests) and the two entry points of the        *)
(* system, ElevatorSystem::addRequest and ElevatorSystem::step.            *)
(***************************************************************************)
EXTENDS Integers, Sequences, FiniteSets, TLC

\* ------------------------------------------------------------------ bounds
\* Sizes of the buildings the general specification constructs.
FloorCounts == {2, 3}
\* Largest fleet the general specification constructs.
MaxElevators == 2
\* Number of ticks after which the clock is no longer advanced.
MaxTime == 6
\* Number of requests accepted over a run (pending + already assigned).
MaxRequests == 2
\* Number of ticks the greedy-assignment scenario is followed by.
MaxGreedyExtra == 1
\* Number of ticks the directional-penalty scenario is followed by.
MaxPenaltyExtra == 1
\* Longest queue built by direct calls of addTarget.
MaxQueue == 3
\* When every accepted request is followed until it is served, requests are
\* submitted while the clock is below this.
LiveWindow == 5

\* numeric_limits<int>::max(), the initial bestScore
IntMax == 2147483647
\* the penalty added for an elevator travelling the wrong way
Penalty == 5

\* ------------------------------------------------------------------- state
VARIABLES
    numFloors,               \* ElevatorSystem::numFloors
    elevators,               \* ElevatorSystem::elevators, indexed 0..n-1
    pendingRequests,         \* ElevatorSystem::pendingRequests
    currentTime,             \* ElevatorSystem::currentTime
    totalRequestsProcessed,  \* ElevatorSystem::totalRequestsProcessed
    lastResult,              \* what the last addRequest reported to the caller
    branch,                  \* branch of Elevator::step each elevator took in the last tick
    chosen,                  \* bestIndex of each request handled by the last assignRequests
    assigned,                \* the requests the last assignRequests went through, in order
    appended                 \* per elevator, the number of targets pushed onto its queue so far

vars == <<numFloors, elevators, pendingRequests, currentTime,
          totalRequestsProcessed, lastResult, branch, chosen, assigned,
          appended>>

Abs(x) == IF x < 0 THEN -x ELSE x

\* enum class Direction
Direction == {"Idle", "Up", "Down"}

\* Request(from, to, t)
Request(from, to, t) == [fromFloor |-> from, toFloor |-> to, timeRequested |-> t]

\* Elevator(id, startFloor): the id is the index in the fleet
NewElevator(startFloor) ==
    [currentFloor |-> startFloor, direction |-> "Idle", doorOpen |-> FALSE,
     targets |-> <<>>, totalStopsServed |-> 0]

NumElevators == Cardinality(DOMAIN elevators)

\* ---------------------------------------------------------------- Elevator
getQueueSize(e) == Len(e.targets)

distanceToFloor(e, floor) == Abs(floor - e.currentFloor)

\* isIdle looking at the direction alone.
isIdleByDirection(e) == e.direction = "Idle"

isIdle(e) == e.targets = <<>> /\ ~e.doorOpen /\ e.direction = "Idle"

\* addTarget inserting at the head of the queue.
addTargetFront(e, floor) ==
    IF e.targets # <<>> /\ e.targets[Len(e.targets)] = floor
    THEN e
    ELSE [e EXCEPT !.targets = <<floor>> \o @]

\* addTarget without the test on the tail: it always appends.
addTargetAlways(e, floor) ==
    [e EXCEPT !.targets = Append(@, floor)]

\* addTarget comparing the floor with the front of the queue, not the back.
addTargetCheckFront(e, floor) ==
    IF e.targets # <<>> /\ Head(e.targets) = floor
    THEN e
    ELSE [e EXCEPT !.targets = Append(@, floor)]

\* Elevator::addTarget
addTarget(e, floor) ==
    IF e.targets # <<>> /\ e.targets[Len(e.targets)] = floor
    THEN e
    ELSE [e EXCEPT !.targets = Append(@, floor)]

\* The branch of Elevator::step taken from state e.
stepBranch(e) ==
    IF e.doorOpen THEN "close"
    ELSE IF e.targets = <<>> THEN "idle"
    ELSE IF e.currentFloor < Head(e.targets) THEN "up"
    ELSE IF e.currentFloor > Head(e.targets) THEN "down"
    ELSE "open"

\* The front target is popped when it is the current floor.
PopServed(e) ==
    IF e.targets # <<>> /\ Head(e.targets) = e.currentFloor
    THEN Tail(e.targets)
    ELSE e.targets

\* The door-close branch without the reset to Idle after the last stop.
CloseDoorNoIdleReset(e) ==
    [e EXCEPT !.doorOpen = FALSE,
              !.totalStopsServed = @ + 1,
              !.targets = PopServed(e)]

\* The door-close branch leaving for the next target in the same tick.
CloseDoorAndMove(e) ==
    LET popped == PopServed(e)
        closed == [e EXCEPT !.doorOpen = FALSE,
                            !.totalStopsServed = @ + 1,
                            !.targets = popped]
    IN  IF popped = <<>> THEN [closed EXCEPT !.direction = "Idle"]
        ELSE IF e.currentFloor < Head(popped)
        THEN [closed EXCEPT !.currentFloor = @ + 1, !.direction = "Up"]
        ELSE IF e.currentFloor > Head(popped)
        THEN [closed EXCEPT !.currentFloor = @ - 1, !.direction = "Down"]
        ELSE closed

\* The door-close branch counting a stop only when the queue runs empty.
CloseDoorCountLast(e) ==
    LET popped == PopServed(e)
    IN  [e EXCEPT !.doorOpen = FALSE,
                  !.totalStopsServed = IF popped = <<>> THEN @ + 1 ELSE @,
                  !.targets = popped,
                  !.direction = IF popped = <<>> THEN "Idle" ELSE @]

\* The door-close branch leaving the served target at the front.
CloseDoorNoPop(e) ==
    [e EXCEPT !.doorOpen = FALSE,
              !.totalStopsServed = @ + 1,
              !.direction = IF e.targets = <<>> THEN "Idle" ELSE @]

\* Elevator::step, door open: close it and complete the stop.
CloseDoor(e) ==
    LET popped == PopServed(e)
    IN  [e EXCEPT !.doorOpen = FALSE,
                  !.totalStopsServed = @ + 1,
                  !.targets = popped,
                  !.direction = IF popped = <<>> THEN "Idle" ELSE @]

\* The move branch opening the door in the tick that reaches the target.
MoveTowardOpenOnArrival(e) ==
    LET target == Head(e.targets)
        moved == IF e.currentFloor < target
                 THEN [e EXCEPT !.currentFloor = @ + 1, !.direction = "Up"]
                 ELSE IF e.currentFloor > target
                 THEN [e EXCEPT !.currentFloor = @ - 1, !.direction = "Down"]
                 ELSE e
    IN  IF moved.currentFloor = target
        THEN [moved EXCEPT !.doorOpen = TRUE]
        ELSE moved

\* The move branch without its last case: at the target the door stays shut.
MoveTowardNeverOpens(e) ==
    LET target == Head(e.targets)
    IN  IF e.currentFloor < target
        THEN [e EXCEPT !.currentFloor = @ + 1, !.direction = "Up"]
        ELSE IF e.currentFloor > target
        THEN [e EXCEPT !.currentFloor = @ - 1, !.direction = "Down"]
        ELSE e

\* The move branch popping the target as the door opens, ahead of the close.
MoveTowardPopOnArrival(e) ==
    LET target == Head(e.targets)
    IN  IF e.currentFloor < target
        THEN [e EXCEPT !.currentFloor = @ + 1, !.direction = "Up"]
        ELSE IF e.currentFloor > target
        THEN [e EXCEPT !.currentFloor = @ - 1, !.direction = "Down"]
        ELSE [e EXCEPT !.doorOpen = TRUE, !.targets = Tail(@)]

\* Elevator::step, door closed and a target queued: move or open the door.
MoveToward(e) ==
    LET target == Head(e.targets)
    IN  IF e.currentFloor < target
        THEN [e EXCEPT !.currentFloor = @ + 1, !.direction = "Up"]
        ELSE IF e.currentFloor > target
        THEN [e EXCEPT !.currentFloor = @ - 1, !.direction = "Down"]
        ELSE [e EXCEPT !.doorOpen = TRUE]

\* Elevator::step
ElevatorStep(e) ==
    IF e.doorOpen THEN CloseDoor(e)
    ELSE IF e.targets = <<>> THEN [e EXCEPT !.direction = "Idle"]
    ELSE MoveToward(e)

\* -------------------------------------------------------------- dispatcher
\* The score without the direction penalty.
ScoreNoPenalty(e, req) ==
    distanceToFloor(e, req.fromFloor) + getQueueSize(e)

\* The score the inner loop of assignRequests computes for one elevator.
Score(e, req) ==
    LET dist == distanceToFloor(e, req.fromFloor)
        dir == e.direction
        elevFloor == e.currentFloor
        goingSameWay ==
            \/ dir = "Idle"
            \/ dir = "Up" /\ req.fromFloor >= elevFloor
            \/ dir = "Down" /\ req.fromFloor <= elevFloor
    IN  dist + (IF ~goingSameWay /\ dir # "Idle" THEN Penalty ELSE 0)
             + getQueueSize(e)

\* The inner loop of assignRequests from index i on, with the best so far.
RECURSIVE BestFrom(_, _, _, _, _)
BestFrom(elevs, req, i, bestIndex, bestScore) ==
    IF i \notin DOMAIN elevs
    THEN bestIndex
    ELSE LET score == Score(elevs[i], req)
         IN  IF score < bestScore
             THEN BestFrom(elevs, req, i + 1, i, score)
             ELSE BestFrom(elevs, req, i + 1, bestIndex, bestScore)

\* The inner loop comparing with <=: the last minimum wins.
BestIndexLast(elevs, req) ==
    IF DOMAIN elevs = {} THEN -1
    ELSE CHOOSE i \in DOMAIN elevs :
            /\ \A j \in DOMAIN elevs : Score(elevs[i], req) <= Score(elevs[j], req)
            /\ \A j \in DOMAIN elevs :
                  Score(elevs[j], req) = Score(elevs[i], req) => j <= i

\* The inner loop looking at idle elevators only: -1 when all are busy.
BestIndexIdleOnly(elevs, req) ==
    LET idle == {i \in DOMAIN elevs : isIdle(elevs[i])}
    IN  IF idle = {} THEN -1
        ELSE CHOOSE i \in idle :
                \A j \in idle :
                    \/ Score(elevs[i], req) < Score(elevs[j], req)
                    \/ Score(elevs[i], req) = Score(elevs[j], req) /\ i <= j

\* The choice refusing an elevator whose queue already holds three floors.
BestIndexCapped(elevs, req) ==
    LET b == BestFrom(elevs, req, 0, -1, IntMax)
    IN  IF b # -1 /\ getQueueSize(elevs[b]) >= 3 THEN -1 ELSE b

\* bestIndex after the inner loop (-1 when the fleet is empty)
BestIndex(elevs, req) == BestFrom(elevs, req, 0, -1, IntMax)

\* The two pushes in the wrong order: destination before pickup.
AssignToReversed(elevs, req, bestIndex) ==
    [elevs EXCEPT ![bestIndex] = addTarget(addTarget(@, req.toFloor), req.fromFloor)]

\* The assignment also heading the chosen elevator for the pickup floor.
AssignToHeading(elevs, req, bestIndex) ==
    [elevs EXCEPT ![bestIndex] =
        LET e == addTarget(addTarget(@, req.fromFloor), req.toFloor)
        IN  [e EXCEPT !.direction =
                IF req.fromFloor > e.currentFloor THEN "Up"
                ELSE IF req.fromFloor < e.currentFloor THEN "Down"
                ELSE @]]

\* The body of the outer loop for one request with bestIndex # -1.
AssignTo(elevs, req, bestIndex) ==
    [elevs EXCEPT ![bestIndex] = addTarget(addTarget(@, req.fromFloor), req.toFloor)]

\* assignRequests run over the requests pend[k..], from the loop state st.
RECURSIVE AssignFrom(_, _, _)
AssignFrom(st, pend, k) ==
    IF k > Len(pend)
    THEN st
    ELSE LET req == pend[k]
             bestIndex == BestIndex(st.elevators, req)
         IN  IF bestIndex # -1
             THEN AssignFrom([st EXCEPT
                        !.elevators = AssignTo(@, req, bestIndex),
                        !.totalRequestsProcessed = @ + 1,
                        !.chosen = Append(@, bestIndex)],
                    pend, k + 1)
             ELSE AssignFrom([st EXCEPT
                        !.stillPending = Append(@, req),
                        !.chosen = Append(@, bestIndex)],
                    pend, k + 1)

\* assignRequests forgetting the requests it could not assign.
assignRequestsClear(elevs, pend, processed) ==
    LET r == AssignFrom([elevators |-> elevs, stillPending |-> <<>>,
                         totalRequestsProcessed |-> processed, chosen |-> <<>>],
                        pend, 1)
    IN  [r EXCEPT !.stillPending = <<>>]

\* ElevatorSystem::assignRequests
assignRequests(elevs, pend, processed) ==
    AssignFrom([elevators |-> elevs, stillPending |-> <<>>,
                totalRequestsProcessed |-> processed, chosen |-> <<>>],
               pend, 1)

\* ------------------------------------------------------------ entry points
\* The range test with > for >=: floor numFloors is let through.
ValidateOffByOne(floors, fromFloor, toFloor) ==
    IF fromFloor < 0 \/ fromFloor > floors \/ toFloor < 0 \/ toFloor > floors
    THEN "OutOfRange"
    ELSE IF fromFloor = toFloor THEN "SameFloor"
    ELSE "Ok"

\* The range test on the pickup floor only.
ValidateFromOnly(floors, fromFloor, toFloor) ==
    IF fromFloor < 0 \/ fromFloor >= floors
    THEN "OutOfRange"
    ELSE IF fromFloor = toFloor THEN "SameFloor"
    ELSE "Ok"

\* The outcome ElevatorSystem::addRequest reports for (fromFloor, toFloor).
Validate(floors, fromFloor, toFloor) ==
    IF fromFloor < 0 \/ fromFloor >= floors \/ toFloor < 0 \/ toFloor >= floors
    THEN "OutOfRange"
    ELSE IF fromFloor = toFloor THEN "SameFloor"
    ELSE "Ok"

\* ElevatorSystem::addRequest
submitRequest(fromFloor, toFloor) ==
    LET res == Validate(numFloors, fromFloor, toFloor)
    IN  /\ lastResult' = res
        /\ pendingRequests' =
              IF res = "Ok"
              THEN Append(pendingRequests, Request(fromFloor, toFloor, currentTime))
              ELSE pendingRequests
        /\ UNCHANGED <<numFloors, elevators, currentTime,
                       totalRequestsProcessed, branch, chosen, assigned,
                       appended>>

\* ElevatorSystem::addRequest, accepting at most MaxRequests requests in a run
addRequest(fromFloor, toFloor) ==
    LET res == Validate(numFloors, fromFloor, toFloor)
    IN  /\ lastResult' = res
        /\ res = "Ok" => Len(pendingRequests) + totalRequestsProcessed < MaxRequests
        /\ pendingRequests' =
              IF res = "Ok"
              THEN Append(pendingRequests, Request(fromFloor, toFloor, currentTime))
              ELSE pendingRequests
        /\ UNCHANGED <<numFloors, elevators, currentTime,
                       totalRequestsProcessed, branch, chosen, assigned,
                       appended>>

\* ElevatorSystem::step
Tick ==
    /\ currentTime' = currentTime + 1
    /\ LET r == assignRequests(elevators, pendingRequests, totalRequestsProcessed)
       IN  /\ elevators' = [i \in DOMAIN elevators |-> ElevatorStep(r.elevators[i])]
           /\ branch' = [i \in DOMAIN elevators |-> stepBranch(r.elevators[i])]
           /\ pendingRequests' = r.stillPending
           /\ totalRequestsProcessed' = r.totalRequestsProcessed
           /\ chosen' = r.chosen
           /\ assigned' = pendingRequests
           /\ appended' = [i \in DOMAIN elevators |->
                  appended[i] + Len(r.elevators[i].targets)
                              - Len(elevators[i].targets)]
    /\ UNCHANGED <<numFloors, lastResult>>

\* ElevatorSystem(floors, numElevators)
Construct(floors, numElevators) ==
    /\ numFloors = floors
    /\ elevators = [i \in 0..(numElevators - 1) |-> NewElevator(0)]
    /\ pendingRequests = <<>>
    /\ currentTime = 0
    /\ totalRequestsProcessed = 0
    /\ lastResult = "None"
    /\ branch = [i \in 0..(numElevators - 1) |-> "none"]
    /\ chosen = <<>>
    /\ assigned = <<>>
    /\ appended = [i \in 0..(numElevators - 1) |-> 0]

\* The floors a caller may type: one below and one above the building too.
Inputs == -1..numFloors

Init == \E floors \in FloorCounts, n \in 0..MaxElevators : Construct(floors, n)

Submit == \E f \in Inputs, t \in Inputs : addRequest(f, t)

\* A tick, while the clock is below the bound of the general specification.
SystemStep == currentTime < MaxTime /\ Tick

Next == Submit \/ SystemStep

Spec == Init /\ [][Next]_vars

\* ------------------------------------------------------------ shorthands
Elevs == DOMAIN elevators

\* The step is a tick of the clock (ElevatorSystem::step).
IsTick == currentTime' = currentTime + 1

\* The fleet as Elevator::step sees it in the coming tick: after dispatch.
Dispatched == assignRequests(elevators, pendingRequests, totalRequestsProcessed).elevators

QueueEmptyDoorClosed(e) == e.targets = <<>> /\ ~e.doorOpen

\* ---------------------------------------------------------------------- C1
\* C1 (as stated): for every elevator, after every call, direction is Idle
\* if and only if the target queue is empty and the door is closed.
C1_IdleIffEmptyClosed ==
    \A i \in Elevs :
        elevators[i].direction = "Idle" <=> QueueEmptyDoorClosed(elevators[i])

\* C1 (amended): an elevator with an empty queue and a closed door is Idle;
\* an Idle elevator with a target or an open door is one that has not moved
\* since it was idle: its last step opened or closed the door at its floor.
C1_EmptyClosedIsIdle ==
    \A i \in Elevs :
        LET e == elevators[i]
        IN  /\ QueueEmptyDoorClosed(e) => e.direction = "Idle"
            /\ (e.direction = "Idle" /\ ~QueueEmptyDoorClosed(e))
                  => branch[i] \in {"open", "close"}

\* An elevator that travelled, served its last stop and went back to Idle.
C1_Witness ==
    \E i \in Elevs :
        /\ branch[i] = "close"
        /\ elevators[i].currentFloor # 0
        /\ QueueEmptyDoorClosed(elevators[i])
        /\ elevators[i].direction = "Idle"

\* ---------------------------------------------------------------------- C2
DoorAtFront(e) ==
    e.doorOpen => (e.targets # <<>> /\ Head(e.targets) = e.currentFloor)

\* C2: whenever an elevator's door is open its queue is non-empty and the
\* front entry is its current floor, both after every call and once the
\* dispatcher of the next tick has appended its targets.
C2_DoorOpenAtFront ==
    \A i \in Elevs : DoorAtFront(elevators[i]) /\ DoorAtFront(Dispatched[i])

\* An elevator with its door open to which the coming dispatch appends.
C2_Witness ==
    \E i \in Elevs :
        /\ elevators[i].doorOpen
        /\ Len(Dispatched[i].targets) > Len(elevators[i].targets)

\* ---------------------------------------------------------------------- C3
\* C3 (dwell law): a tick whose step opens the door at f leaves the elevator
\* at f with the door open; the next tick leaves it at f with the door
\* closed, one more stop served and the front target f removed; if the queue
\* is then non-empty the tick after that moves it by exactly one floor; and
\* no tick that closes a door changes the floor.
C3_DwellLaw ==
    [][IsTick =>
        \A i \in Elevs :
            LET e == elevators[i]
                e2 == elevators'[i]
            IN  /\ branch'[i] = "open" =>
                      /\ ~e.doorOpen /\ e2.doorOpen
                      /\ e2.currentFloor = e.currentFloor
                      /\ Head(e2.targets) = e2.currentFloor
                /\ branch[i] = "open" =>
                      /\ branch'[i] = "close"
                      /\ ~e2.doorOpen
                      /\ e2.currentFloor = e.currentFloor
                      /\ e2.totalStopsServed = e.totalStopsServed + 1
                      /\ Head(e.targets) = e.currentFloor
                      /\ Len(e2.targets) >= Len(e.targets) - 1
                      /\ SubSeq(e2.targets, 1, Len(e.targets) - 1) = Tail(e.targets)
                /\ (branch[i] = "close" /\ e.targets # <<>>) =>
                      Abs(e2.currentFloor - e.currentFloor) = 1
                /\ branch'[i] = "close" => e2.currentFloor = e.currentFloor
    ]_vars

\* An elevator that left a served floor: it moved right after a door-close.
C3_Witness ==
    \E i \in Elevs :
        /\ branch[i] \in {"up", "down"}
        /\ elevators[i].totalStopsServed = 1
        /\ elevators[i].targets # <<>>

\* ---------------------------------------------------------------------- C4
\* The loop state of assignRequests at the moment the k-th pending request
\* is processed: the first k-1 requests have been handled.
StateAt(k) ==
    assignRequests(elevators, SubSeq(pendingRequests, 1, k - 1), totalRequestsProcessed)

\* The score as the claim words it.
C4_Compatible(e, from) ==
    \/ e.direction = "Up" /\ from >= e.currentFloor
    \/ e.direction = "Down" /\ from <= e.currentFloor

C4_Score(e, from) ==
    Abs(from - e.currentFloor)
    + (IF e.direction # "Idle" /\ ~C4_Compatible(e, from) THEN 5 ELSE 0)
    + Len(e.targets)

\* C4: on a non-empty fleet every pending request goes to the lowest-index
\* elevator among those of minimal score, the scores being taken on the
\* elevators as they are when that request is processed.
C4_LowestIndexMinScore ==
    [][(IsTick /\ Elevs # {}) =>
        /\ Len(chosen') = Len(pendingRequests)
        /\ \A k \in 1..Len(pendingRequests) :
              LET es == StateAt(k).elevators
                  from == pendingRequests[k].fromFloor
                  c == chosen'[k]
              IN  /\ c \in Elevs
                  /\ \A j \in Elevs :
                        /\ C4_Score(es[c], from) <= C4_Score(es[j], from)
                        /\ C4_Score(es[j], from) = C4_Score(es[c], from) => c <= j
    ]_vars

\* The dispatcher has assigned a request, and a request is pending for which
\* an elevator that is moving the wrong way carries the penalty while another
\* elevator, not the first, has the smallest score.
C4_Witness ==
    /\ chosen # <<>>
    /\ \E k \in 1..Len(pendingRequests) :
          LET es == StateAt(k).elevators
              from == pendingRequests[k].fromFloor
          IN  /\ BestIndex(es, pendingRequests[k]) = 1
              /\ \E j \in Elevs :
                    /\ es[j].direction # "Idle"
                    /\ ~C4_Compatible(es[j], from)

\* ---------------------------------------------------------------------- C5
C5_InRange(f) == f \in 0..(numFloors - 1)

C5_Frame == UNCHANGED <<elevators, currentTime, totalRequestsProcessed>>

\* C5: a submission with a floor outside [0, numFloors-1] is rejected with
\* OutOfRange, one with two equal floors in range with SameFloor; a rejected
\* submission changes nothing, any other appends exactly one request.
C5_Rejection ==
    [][~IsTick => \A f \in Inputs, t \in Inputs :
        addRequest(f, t) =>
            /\ (~C5_InRange(f) \/ ~C5_InRange(t)) =>
                  /\ lastResult' = "OutOfRange"
                  /\ pendingRequests' = pendingRequests
                  /\ C5_Frame
            /\ (C5_InRange(f) /\ C5_InRange(t) /\ f = t) =>
                  /\ lastResult' = "SameFloor"
                  /\ pendingRequests' = pendingRequests
                  /\ C5_Frame
            /\ (C5_InRange(f) /\ C5_InRange(t) /\ f # t) =>
                  /\ lastResult' = "Ok"
                  /\ pendingRequests' =
                        Append(pendingRequests,
                               [fromFloor |-> f, toFloor |-> t,
                                timeRequested |-> currentTime])
                  /\ C5_Frame
    ]_vars

\* A submission was rejected while the system was busy.
C5_Witness ==
    /\ lastResult \in {"OutOfRange", "SameFloor"}
    /\ pendingRequests # <<>>
    /\ \E i \in Elevs : elevators[i].targets # <<>>

\* ---------------------------------------------------------------------- C6
\* C6: every elevator's floor and every queued target lies in
\* [0, numFloors-1], and every request of the backlog has both floors in
\* that range and two different floors.
C6_FloorsInRange ==
    /\ \A i \in Elevs :
          /\ elevators[i].currentFloor \in 0..(numFloors - 1)
          /\ \A k \in 1..Len(elevators[i].targets) :
                elevators[i].targets[k] \in 0..(numFloors - 1)
    /\ \A k \in 1..Len(pendingRequests) :
          /\ pendingRequests[k].fromFloor \in 0..(numFloors - 1)
          /\ pendingRequests[k].toFloor \in 0..(numFloors - 1)
          /\ pendingRequests[k].fromFloor # pendingRequests[k].toFloor

\* An elevator at the top floor, bound for the ground floor.
C6_Witness ==
    \E i \in Elevs :
        /\ elevators[i].currentFloor = numFloors - 1
        /\ elevators[i].targets # <<>>
        /\ elevators[i].targets[Len(elevators[i].targets)] = 0

\* ---------------------------------------------------------------------- C7
\* C7: totalStopsServed and totalRequestsProcessed never decrease; a tick
\* adds 1 to an elevator's totalStopsServed when its step closes the door
\* and 0 otherwise, and adds to totalRequestsProcessed the number of
\* requests it assigned; a submission changes neither.
C7_Counters ==
    [][/\ totalRequestsProcessed' >= totalRequestsProcessed
       /\ \A i \in Elevs :
             LET e == elevators[i]
                 e2 == elevators'[i]
                 closes == e.doorOpen /\ ~e2.doorOpen
             IN  /\ e2.totalStopsServed >= e.totalStopsServed
                 /\ closes <=> (IsTick /\ branch'[i] = "close")
                 /\ e2.totalStopsServed =
                       e.totalStopsServed + (IF closes THEN 1 ELSE 0)
       /\ IsTick =>
             totalRequestsProcessed' = totalRequestsProcessed
                + Cardinality({k \in 1..Len(chosen') : chosen'[k] # -1})
       /\ ~IsTick => totalRequestsProcessed' = totalRequestsProcessed
    ]_vars

\* The last tick assigned a request and closed a door with targets left.
C7_Witness ==
    /\ chosen # <<>>
    /\ totalRequestsProcessed = 2
    /\ \E i \in Elevs :
          /\ branch[i] = "close"
          /\ elevators[i].targets # <<>>
          /\ elevators[i].totalStopsServed >= 1

\* ---------------------------------------------------------------------- C8
\* C8: with at least one elevator a tick empties the backlog, so that every
\* request of the backlog was submitted after the last tick.
C8_BacklogEmptied ==
    [][Elevs # {} =>
        /\ IsTick => pendingRequests' = <<>>
        /\ \A k \in 1..Len(pendingRequests') :
              pendingRequests'[k].timeRequested = currentTime'
    ]_vars

\* A tick took two requests out of the backlog at once.
C8_Witness ==
    /\ Elevs # {}
    /\ pendingRequests = <<>>
    /\ Len(chosen) = 2
    /\ totalRequestsProcessed = 2

\* ---------------------------------------------------------------------- C9
\* C9: assigning (from, to) leaves the chosen elevator's queue ending with
\* from, to; the queue keeps its earlier entries and grows by 2, or by 1
\* when from was already its tail; totalRequestsProcessed grows by 1 and
\* the request is not kept in the backlog.
C9_PickupThenDestination ==
    [][IsTick =>
        \A k \in 1..Len(pendingRequests) :
            LET req == pendingRequests[k]
                c == chosen'[k]
                before == StateAt(k)
                after == StateAt(k + 1)
            IN  c # -1 =>
                  LET q == before.elevators[c].targets
                      q2 == after.elevators[c].targets
                      n == Len(q2)
                      collapsed == q # <<>> /\ q[Len(q)] = req.fromFloor
                  IN  /\ n >= 2
                      /\ q2[n - 1] = req.fromFloor /\ q2[n] = req.toFloor
                      /\ n = Len(q) + (IF collapsed THEN 1 ELSE 2)
                      /\ SubSeq(q2, 1, Len(q)) = q
                      /\ after.totalRequestsProcessed
                            = before.totalRequestsProcessed + 1
                      /\ after.stillPending = before.stillPending
                      /\ \A j \in 1..Len(pendingRequests') :
                            pendingRequests'[j] # req
                      /\ elevators'[c] =
                            ElevatorStep(StateAt(Len(pendingRequests) + 1).elevators[c])
    ]_vars

\* A single elevator took two requests and holds three targets without
\* having served a stop: the second pickup was the first destination.
C9_Witness ==
    /\ NumElevators = 1
    /\ totalRequestsProcessed = 2
    /\ elevators[0].totalStopsServed = 0
    /\ Len(elevators[0].targets) = 3

\* --------------------------------------------------------------------- C10
\* The greedy assignment scenario: 10 floors, 2 elevators idle at floor 0,
\* one request (5, 8), then seven ticks with no other submission; after
\* that the caller is free to submit one more request and to tick on.
InitGreedy == Construct(10, 2)

GreedySubmit ==
    /\ currentTime = 0
    /\ pendingRequests = <<>>
    /\ addRequest(5, 8)

GreedyTick ==
    /\ currentTime < 7
    /\ currentTime = 0 => pendingRequests # <<>>
    /\ Tick

GreedyAfter ==
    /\ currentTime >= 7
    /\ \/ Len(pendingRequests) + totalRequestsProcessed < 2 /\ Submit
       \/ currentTime < 7 + MaxGreedyExtra /\ Tick

NextGreedy == GreedySubmit \/ GreedyTick \/ GreedyAfter

SpecGreedy == InitGreedy /\ [][NextGreedy]_vars

\* C10: after submitRequest(5, 8) and one tick elevator 0 holds [5, 8],
\* elevator 1 holds nothing and totalRequestsProcessed is 1; after 5 further
\* ticks elevator 0 is at floor 5 with its door open (no stop counted yet),
\* and the tick after that makes its totalStopsServed 1.
C10_GreedyScenario ==
    /\ currentTime = 1 =>
          /\ elevators[0].targets = <<5, 8>>
          /\ elevators[1].targets = <<>>
          /\ totalRequestsProcessed = 1
          /\ chosen = <<0>>
    /\ currentTime = 6 =>
          /\ elevators[0].currentFloor = 5
          /\ elevators[0].doorOpen
          /\ elevators[0].totalStopsServed = 0
    /\ currentTime = 7 =>
          /\ elevators[0].totalStopsServed = 1
          /\ elevators[0].currentFloor = 5
          /\ ~elevators[0].doorOpen

\* The end of the scenario: the pickup at floor 5 is done, floor 8 is left.
C10_Witness ==
    /\ currentTime = 7
    /\ pendingRequests = <<>>
    /\ elevators[0].totalStopsServed = 1
    /\ elevators[0].targets = <<8>>
    /\ isIdle(elevators[1])

\* --------------------------------------------------------------------- C11
\* The directional penalty scenario: 11 floors, 2 elevators; the requests
\* (0, 1), (0, 2), (1, 10) submitted before the first tick and six ticks
\* bring elevator 0 to floor 2 going Up with queue [10] and leave elevator 1
\* Idle at floor 2; then a request from floor 1 is submitted and dispatched.
InitPenalty == Construct(11, 2)

PenaltySetup ==
    /\ currentTime = 0
    /\ \/ Len(pendingRequests) = 0 /\ submitRequest(0, 1)
       \/ Len(pendingRequests) = 1 /\ submitRequest(0, 2)
       \/ Len(pendingRequests) = 2 /\ submitRequest(1, 10)

PenaltyTick ==
    /\ currentTime < 6
    /\ currentTime = 0 => Len(pendingRequests) = 3
    /\ Tick

PenaltyRequest ==
    /\ currentTime = 6
    /\ pendingRequests = <<>>
    /\ \E t \in Inputs : submitRequest(1, t)

PenaltyAfter ==
    /\ currentTime >= 6
    /\ \/ /\ currentTime = 6 => pendingRequests # <<>>
          /\ currentTime < 7 + MaxPenaltyExtra
          /\ Tick
       \/ /\ currentTime > 6
          /\ Len(pendingRequests) + totalRequestsProcessed < 5
          /\ \E f \in Inputs, t \in Inputs : submitRequest(f, t)

NextPenalty == PenaltySetup \/ PenaltyTick \/ PenaltyRequest \/ PenaltyAfter

SpecPenalty == InitPenalty /\ [][NextPenalty]_vars

\* The state the scenario starts from, on the fleet es.
C11_Given(es) ==
    /\ DOMAIN es = {0, 1}
    /\ es[0].direction = "Up" /\ es[0].currentFloor = 2 /\ es[0].targets = <<10>>
    /\ es[1].direction = "Idle" /\ es[1].currentFloor = 2 /\ es[1].targets = <<>>

\* C11: with elevator 0 going Up at floor 2 with queue [10] and elevator 1
\* Idle at floor 2 with an empty queue, a pending request from floor 1
\* scores elevator 0 with the +5 penalty (1 + 5 + 1) and elevator 1 with 1,
\* and the tick assigns it to elevator 1, leaving elevator 0's queue alone.
C11_PenaltyScenario ==
    [][IsTick =>
        \A k \in 1..Len(pendingRequests) :
            LET st == StateAt(k)
                req == pendingRequests[k]
            IN  (C11_Given(st.elevators) /\ req.fromFloor = 1) =>
                  /\ Score(st.elevators[0], req) = 1 + 5 + 1
                  /\ Score(st.elevators[1], req) = 1
                  /\ chosen'[k] = 1
                  /\ StateAt(k + 1).elevators[1].targets = <<1, req.toFloor>>
                  /\ StateAt(k + 1).elevators[0].targets = <<10>>
    ]_vars

\* The request from floor 1 has been dispatched to elevator 1 from the
\* state of the scenario: elevator 0 went on to floor 3, elevator 1 to 1.
C11_Witness ==
    /\ currentTime = 7
    /\ chosen = <<1>>
    /\ elevators[0].currentFloor = 3 /\ elevators[0].targets = <<10>>
    /\ elevators[1].currentFloor = 1 /\ elevators[1].direction = "Down"
    /\ Len(elevators[1].targets) = 2 /\ Head(elevators[1].targets) = 1

\* --------------------------------------------------------------------- C12
\* One elevator driven through its own interface: addTarget with any floor
\* of the building, and step (through the tick of a system of one elevator
\* with an empty backlog).
InitTargets == \E floors \in FloorCounts : Construct(floors, 1)

CallAddTarget ==
    \E f \in 0..(numFloors - 1) :
        /\ Len(elevators[0].targets) < MaxQueue
        /\ elevators' = [elevators EXCEPT ![0] = addTarget(@, f)]
        /\ appended' = [appended EXCEPT ![0] =
               @ + Len(addTarget(elevators[0], f).targets)
                 - Len(elevators[0].targets)]
        /\ UNCHANGED <<numFloors, pendingRequests, currentTime,
                       totalRequestsProcessed, lastResult, branch, chosen, assigned>>

CallStep == currentTime < MaxTime /\ Tick

NextTargets == CallAddTarget \/ CallStep

SpecTargets == InitTargets /\ [][NextTargets]_vars

\* C12: addTarget(f) changes nothing exactly when the queue is non-empty
\* and ends with f; otherwise it appends f and keeps the earlier entries
\* and every other field; a second addTarget(f) changes nothing.
C12_AddTargetIdempotent ==
    \A f \in 0..(numFloors - 1) :
        LET e == elevators[0]
            q == e.targets
            tailIsF == q # <<>> /\ q[Len(q)] = f
            once == addTarget(e, f)
            twice == addTarget(once, f)
        IN  /\ tailIsF <=> once = e
            /\ ~tailIsF => once = [e EXCEPT !.targets = q \o <<f>>]
            /\ Len(once.targets) - Len(q) \in {0, 1}
            /\ twice = once

\* A queue built by addTarget that holds a floor twice, not side by side, and
\* was built after the elevator had already served a stop.
C12_Witness ==
    LET q == elevators[0].targets
    IN  /\ Len(q) = 3
        /\ q[1] = q[3]
        /\ elevators[0].totalStopsServed > 0

\* --------------------------------------------------------------------- C13
\* C13: in a system without elevators no request ever leaves the backlog
\* and totalRequestsProcessed stays 0: a tick leaves the backlog as it is
\* and adds 1 to currentTime, a submission only appends.
C13_EmptyFleetKeepsBacklog ==
    [][Elevs = {} =>
        /\ totalRequestsProcessed = 0 /\ totalRequestsProcessed' = 0
        /\ Len(pendingRequests') >= Len(pendingRequests)
        /\ SubSeq(pendingRequests', 1, Len(pendingRequests)) = pendingRequests
        /\ IsTick => pendingRequests' = pendingRequests
        /\ (pendingRequests' = pendingRequests /\ lastResult' = lastResult)
              => currentTime' = currentTime + 1
        /\ currentTime' \in {currentTime, currentTime + 1}
    ]_vars

\* Without elevators, a request submitted before the first tick is still
\* pending at the last one, next to a later one.
C13_Witness ==
    /\ Elevs = {}
    /\ currentTime = MaxTime
    /\ Len(pendingRequests) = 2
    /\ pendingRequests[1].timeRequested = 0
    /\ pendingRequests[2].timeRequested > 0
    /\ totalRequestsProcessed = 0

\* --------------------------------------------------------------------- C14
\* A system whose clock keeps ticking: requests come in during the first
\* LiveWindow ticks, and the ticks go on (weak fairness) long enough after that for every queue
\* to be worked off: a stop takes at most MaxFloors - 1 moves, one tick
\* with the door open and one to close it, and a request adds two stops.
InitLive ==
    \E floors \in FloorCounts, n \in 0..MaxElevators : Construct(floors, n)

MaxFloors == CHOOSE n \in FloorCounts : \A m \in FloorCounts : m <= n

MaxLiveTime == LiveWindow + 2 * MaxRequests * (MaxFloors + 1)

LiveSubmit == currentTime < LiveWindow /\ Submit

LiveTick == currentTime < MaxLiveTime /\ Tick

NextLive == LiveSubmit \/ LiveTick

\* The driver loop seen on the clock alone: among the steps of NextLive those
\* advancing the clock are LiveTick's, and LiveTick is possible exactly while
\* the clock is below MaxLiveTime.
LiveClock == currentTime < MaxLiveTime /\ currentTime' = currentTime + 1

SpecLive == InitLive /\ [][NextLive]_vars /\ WF_currentTime(LiveClock)

\* Every floor of every building, every index of every fleet.
AllFloors == UNION {0..(n - 1) : n \in FloorCounts}

AllElevs == 0..(MaxElevators - 1)

\* The (from, to) pairs addRequest accepts in some building.
Rides == {p \in AllFloors \X AllFloors : p[1] # p[2]}

\* The last tick assigned a request (f, t) to elevator c.
C14_Assigned(c, f, t) ==
    \E k \in 1..Len(assigned) :
        /\ chosen[k] = c
        /\ assigned[k].fromFloor = f
        /\ assigned[k].toFloor = t

C14_OpenAt(c, f) ==
    c \in Elevs /\ elevators[c].doorOpen /\ elevators[c].currentFloor = f

\* Elevator c closed its door at floor f in the last tick: the door was open
\* at f at the end of the tick before.
C14_JustClosedAt(c, f) ==
    c \in Elevs /\ branch[c] = "close" /\ elevators[c].currentFloor = f

\* C14 (as stated): the elevator a request (from, to) is assigned to has its
\* door open at from at the end of the assigning tick or of a later tick,
\* and at to at the end of a tick after that.
C14_ServedAfterAssignment ==
    \A c \in AllElevs, p \in Rides :
        [](C14_Assigned(c, p[1], p[2]) =>
              <>(C14_OpenAt(c, p[1]) /\ <>C14_OpenAt(c, p[2])))

\* C14 (amended): the door is open at from at the end of the tick before
\* the assigning tick (the assigning tick then closes it) or of the
\* assigning tick or of a later one, and at to at the end of a later tick.
C14_ServedFromTickBefore ==
    \A c \in AllElevs, p \in Rides :
        [](C14_Assigned(c, p[1], p[2]) =>
              <>(/\ \/ C14_OpenAt(c, p[1])
                    \/ /\ C14_Assigned(c, p[1], p[2])
                       /\ C14_JustClosedAt(c, p[1])
                 /\ <>C14_OpenAt(c, p[2])))

\* An elevator stands with its door open at its last queued floor after
\* three stops: both requests have been carried through.
C14_Witness ==
    \E c \in Elevs :
        /\ elevators[c].doorOpen
        /\ Len(elevators[c].targets) = 1
        /\ elevators[c].totalStopsServed >= 2
        /\ totalRequestsProcessed = 2
        /\ pendingRequests = <<>>

\* --------------------------------------------------------------------- C15
\* Nothing is left to do: no backlog, every elevator idle with its door shut.
C15_Quiet ==
    /\ pendingRequests = <<>>
    /\ \A i \in Elevs :
          /\ elevators[i].targets = <<>>
          /\ ~elevators[i].doorOpen
          /\ elevators[i].direction = "Idle"

\* A tick in a quiet state changes the clock and nothing else of the system.
C15_QuietTick ==
    (C15_Quiet /\ IsTick) =>
        /\ elevators' = elevators
        /\ pendingRequests' = pendingRequests
        /\ totalRequestsProcessed' = totalRequestsProcessed
        /\ numFloors' = numFloors
        /\ currentTime' = currentTime + 1

\* C15 (as stated): once submissions have stopped and ticks keep occurring,
\* the system becomes quiet and stays so, further ticks changing only the
\* clock.
C15_Quiescence == <>[]C15_Quiet /\ [][C15_QuietTick]_vars

\* C15 (amended): the same of a system with at least one elevator.
C15_QuiescenceWithElevators ==
    <>[](Elevs # {} => C15_Quiet) /\ [][C15_QuietTick]_vars

\* Quiet after both requests were carried, each by its own elevator, with
\* the clock still running.
C15_Witness ==
    /\ C15_Quiet
    /\ currentTime > LiveWindow
    /\ currentTime < MaxLiveTime
    /\ totalRequestsProcessed = 2
    /\ \A i \in Elevs : elevators[i].totalStopsServed = 2
    /\ \E i \in Elevs : elevators[i].currentFloor # 0
    /\ Cardinality(Elevs) = 2

\* --------------------------------------------------------------------- C16
\* C16: in every state, between ticks and between the dispatch and the
\* movement of a tick, an elevator with an empty queue and a closed door has
\* direction Idle, and isIdle() is true exactly of the elevators with an
\* empty queue and a closed door.
C16_IsIdleIffEmptyClosed ==
    \A i \in Elevs :
        \A e \in {elevators[i], Dispatched[i]} :
            /\ (e.targets = <<>> /\ ~e.doorOpen) => e.direction = "Idle"
            /\ isIdle(e) <=> (e.targets = <<>> /\ ~e.doorOpen)

\* One elevator is back to idle away from the ground floor after two stops
\* while the other, not idle, holds its door open with direction Idle.
C16_Witness ==
    \E i \in Elevs, j \in Elevs :
        /\ isIdle(elevators[i])
        /\ elevators[i].totalStopsServed = 2
        /\ elevators[i].currentFloor # 0
        /\ elevators[j].doorOpen
        /\ elevators[j].direction = "Idle"
        /\ ~isIdle(elevators[j])

\* --------------------------------------------------------------------- C17
\* The system after the coming tick, had the requests of extra been
\* submitted, in that order, before it.
C17_After(extra) ==
    LET r == assignRequests(elevators, pendingRequests \o extra,
                            totalRequestsProcessed)
    IN  [elevators |-> [i \in DOMAIN elevators |-> ElevatorStep(r.elevators[i])],
         pendingRequests |-> r.stillPending,
         totalRequestsProcessed |-> r.totalRequestsProcessed,
         currentTime |-> currentTime + 1]

\* The requests addRequest accepts now.
C17_Valid ==
    {Request(p[1], p[2], currentTime) :
        p \in {q \in (0..(numFloors - 1)) \X (0..(numFloors - 1)) :
                  q[1] # q[2]}}

\* The tick does to the system what C17_After says of no extra request.
C17_TickIsAfter ==
    LET a == C17_After(<<>>)
    IN  /\ elevators' = a.elevators
        /\ pendingRequests' = a.pendingRequests
        /\ totalRequestsProcessed' = a.totalRequestsProcessed
        /\ currentTime' = a.currentTime

C17_Count(seq, r) == Cardinality({k \in 1..Len(seq) : seq[k] = r})

\* C17 (as stated): two valid requests submitted in either order before the
\* next tick give the same queue of every elevator and the same counters
\* after that tick.
C17_OrderIrrelevant ==
    [][IsTick =>
          /\ C17_TickIsAfter
          /\ \A r1 \in C17_Valid, r2 \in C17_Valid :
                LET a == C17_After(<<r1, r2>>)
                    b == C17_After(<<r2, r1>>)
                IN  /\ \A i \in Elevs :
                          /\ a.elevators[i].targets = b.elevators[i].targets
                          /\ a.elevators[i].totalStopsServed
                                = b.elevators[i].totalStopsServed
                    /\ a.totalRequestsProcessed = b.totalRequestsProcessed
                    /\ a.currentTime = b.currentTime]_vars

\* C17 (amended): the backlog is dispatched in submission order; two valid
\* requests submitted in either order before the next tick give the same
\* counters (clock, processed requests, stops of every elevator) and the
\* same requests left in the backlog after that tick; the queues, floors,
\* doors and directions can differ.
C17_OrderKeepsCounters ==
    [][IsTick =>
          /\ C17_TickIsAfter
          /\ \A r1 \in C17_Valid, r2 \in C17_Valid :
                LET a == C17_After(<<r1, r2>>)
                    b == C17_After(<<r2, r1>>)
                IN  /\ \A i \in Elevs :
                          a.elevators[i].totalStopsServed
                             = b.elevators[i].totalStopsServed
                    /\ a.totalRequestsProcessed = b.totalRequestsProcessed
                    /\ a.currentTime = b.currentTime
                    /\ Len(a.pendingRequests) = Len(b.pendingRequests)
                    /\ \A r \in {r1, r2} :
                          C17_Count(a.pendingRequests, r)
                             = C17_Count(b.pendingRequests, r)]_vars

\* The last tick assigned two different requests, submitted between the same
\* two ticks, to one elevator, which queued them in submission order.
C17_Witness ==
    /\ Len(assigned) = 2
    /\ assigned[1].timeRequested = assigned[2].timeRequested
    /\ assigned[1].fromFloor # assigned[2].fromFloor
    /\ chosen[1] = chosen[2]
    /\ chosen[1] \in Elevs
    /\ LET q == elevators[chosen[1]].targets
       IN  /\ Len(q) >= 3
           /\ q[Len(q)] = assigned[2].toFloor

\* --------------------------------------------------------------------- C18
\* q extends p at its tail.
C18_Extends(q, p) == Len(q) >= Len(p) /\ SubSeq(q, 1, Len(p)) = p

\* C18: the dispatch of a tick changes nothing of an elevator but its
\* queue, changes the queue of chosen elevators only, and changes it by
\* appending: each request appends its pickup and destination floors, or
\* the part of them addTarget does not drop, to the elevator chosen for it.
\* The movement of the tick then starts from the fleet so dispatched.
C18_DispatchOnlyAppends ==
    [][IsTick =>
          LET d == assignRequests(elevators, pendingRequests,
                                  totalRequestsProcessed)
          IN  /\ elevators' = [i \in Elevs |-> ElevatorStep(d.elevators[i])]
              /\ chosen' = d.chosen
              /\ \A i \in Elevs :
                    /\ d.elevators[i]
                          = [elevators[i] EXCEPT !.targets = d.elevators[i].targets]
                    /\ C18_Extends(d.elevators[i].targets, elevators[i].targets)
                    /\ (\A k \in 1..Len(d.chosen) : d.chosen[k] # i)
                          => d.elevators[i].targets = elevators[i].targets
              /\ \A k \in 1..Len(pendingRequests) :
                    LET before == StateAt(k).elevators
                        after == StateAt(k + 1).elevators
                        req == pendingRequests[k]
                    IN  \A i \in Elevs :
                           /\ i # d.chosen[k] => after[i] = before[i]
                           /\ after[i] = [before[i] EXCEPT !.targets = after[i].targets]
                           /\ \E tail \in {<<>>, <<req.toFloor>>,
                                           <<req.fromFloor, req.toFloor>>} :
                                  after[i].targets = before[i].targets \o tail]_vars

\* The last tick gave a request to an elevator on its way with its door
\* shut: it moved on in its direction with the two floors at the tail.
C18_Witness ==
    /\ Len(assigned) = 1
    /\ chosen[1] \in Elevs
    /\ LET e == elevators[chosen[1]]
           n == Len(e.targets)
       IN  /\ branch[chosen[1]] \in {"up", "down"}
           /\ e.direction # "Idle"
           /\ e.totalStopsServed >= 1
           /\ n >= 3
           /\ e.targets[n] = assigned[1].toFloor
           /\ e.targets[n - 1] = assigned[1].fromFloor

\* --------------------------------------------------------------------- C19
\* Stops served plus floors still queued, of one elevator and of the fleet.
C19_Load(e) == e.totalStopsServed + Len(e.targets)

RECURSIVE C19_Sum(_, _)
C19_Sum(es, is) ==
    IF is = {} THEN 0
    ELSE LET i == CHOOSE j \in is : TRUE
         IN  C19_Load(es[i]) + C19_Sum(es, is \ {i})

\* C19: a step that closes a door takes exactly one floor off the queue the
\* dispatch of the tick left, and counts one stop; every other step leaves
\* queue and stops as the dispatch left them. So in every state an
\* elevator's stops served plus queue length is the number of floors ever
\* pushed onto its queue, and over the fleet that sum lies between
\* totalRequestsProcessed and twice totalRequestsProcessed.
C19_StopAccounting ==
    /\ [](/\ \A i \in Elevs : C19_Load(elevators[i]) = appended[i]
          /\ totalRequestsProcessed <= C19_Sum(elevators, Elevs)
          /\ C19_Sum(elevators, Elevs) <= 2 * totalRequestsProcessed)
    /\ [][IsTick =>
             \A i \in Elevs :
                LET d == Dispatched[i]
                    e == elevators'[i]
                IN  IF branch'[i] = "close"
                    THEN /\ Len(e.targets) = Len(d.targets) - 1
                         /\ e.targets = Tail(d.targets)
                         /\ e.totalStopsServed = d.totalStopsServed + 1
                    ELSE /\ e.targets = d.targets
                         /\ e.totalStopsServed = d.totalStopsServed]_vars

\* Two requests gave one elevator three floors, the pickup of the second
\* being the destination of the first: two stops served, one floor queued.
C19_Witness ==
    \E i \in Elevs :
        /\ totalRequestsProcessed = 2
        /\ appended[i] = 3
        /\ elevators[i].totalStopsServed = 2
        /\ Len(elevators[i].targets) = 1
        /\ C19_Sum(elevators, Elevs) = 3

\* --------------------------------------------------------------------- C20
C20_NoAdjacentEqual(q) == \A k \in 1..(Len(q) - 1) : q[k] # q[k + 1]

\* C20: no queue holds the same floor twice in a row, between ticks or
\* between the dispatch and the movement of a tick; and when a step has
\* closed a door and popped the front, the queue is empty or its new front
\* is another floor than the one the elevator stands at.
C20_NoRepeatedStop ==
    /\ [](\A i \in Elevs :
             /\ C20_NoAdjacentEqual(elevators[i].targets)
             /\ C20_NoAdjacentEqual(Dispatched[i].targets))
    /\ [][IsTick =>
             \A i \in Elevs :
                LET e == elevators'[i]
                IN  (branch'[i] = "close" /\ e.targets # <<>>)
                       => /\ e.targets = Tail(Dispatched[i].targets)
                          /\ Head(e.targets) # e.currentFloor]_vars

\* A request whose pickup floor was the tail of the queue was collapsed
\* into it, and the door has just closed on the first of the three floors.
C20_Witness ==
    \E i \in Elevs :
        /\ branch[i] = "close"
        /\ appended[i] = 3
        /\ totalRequestsProcessed = 2
        /\ Len(elevators[i].targets) = 2
        /\ elevators[i].targets[1] # elevators[i].currentFloor
        /\ elevators[i].targets[2] = elevators[i].currentFloor

====
